---- MODULE Spec2Model ----
(***************************************************************************)
(* Client-side orchestration of the ATS resume analysis front end          *)
(* (src/frontend/src/App.jsx): the resume collection, the job description, *)
(* the submit / response lifecycle of handleAnalyze, and the results store *)
(* with its position-keyed visibility flags and sortByScore.               *)
(*                                                                         *)
(* Every React event handler runs to completion against the state of the   *)
(* last render and its batched setState calls are committed before the     *)
(* next event is dispatched, so a handler is one atomic action.  The only  *)
(* suspension point is the await on axios.post inside handleAnalyze: the   *)
(* part before it is the action handleAnalyze, the part after it is one of *)
(* the three completion actions.                                           *)
(*                                                                         *)
(* The older required-experience variant of the component                  *)
(* (src/unnamed/part_000) is the second specification, SpecExperience.     *)
(***************************************************************************)
EXTENDS Integers, Sequences, FiniteSets, Bags, TLC

VARIABLES
    resumes,         \* useState([])    : sequence of File
    jobDescription,  \* useState('')    : string, as a sequence of characters
    results,         \* useState([])    : a JS value, see Arr / ObjectPayload
    analyzing,       \* useState(false)
    error,           \* useState(null)
    visibleContent,  \* useState({})    : object keyed by <<section, index>>
    analyzeClicked,  \* useState(false)
    isDragOver,      \* useState(false)
    requests,        \* POST /analyze exchanges that are outstanding
    hPrior,          \* history: results/visibleContent when the outstanding
                     \*          submission was accepted
    hLastSuccess,    \* history: data of the most recent successful response
    requiredExperience
                     \* useState(0) of the required-experience variant
                     \* (src/unnamed/part_000); App.jsx has no such state and
                     \* its handlers leave it alone

vars == <<resumes, jobDescription, results, analyzing, error, visibleContent,
          analyzeClicked, isDragOver, requests, hPrior, hLastSuccess,
          requiredExperience>>

-----------------------------------------------------------------------------
(* Bounds and input universes                                              *)

MaxResumes == 2      \* longest resume collection explored
MaxRemoveLen == 3    \* length of the collections removeFile is explored on

PDF == "application/pdf"
DOCX == "application/vnd.openxmlformats-officedocument.wordprocessingml.document"
TXT == "text/plain"

File(n, t) == [name |-> n, type |-> t]

Names == {"a", "b"}

\* e.target.files / e.dataTransfer.files of one event; two files of one batch
\* may carry the same name (picked from different folders)
Batches ==
    { <<File("a", PDF)>>,
      <<File("b", DOCX)>>,
      <<File("b", TXT)>>,
      <<File("a", PDF), File("a", PDF)>>,
      <<File("a", PDF), File("b", TXT)>>,
      <<File("b", DOCX), File("a", PDF)>> }

Whitespace == {" ", "\n"}
Descriptions == {<<>>, <<" ", "\n">>, <<" ", "x", " ">>}

Result(c, s) == [candidate_name |-> c, score |-> s]

\* response.data arrays the service is taken to return
Responses ==
    { <<>>,
      <<Result("A", 65)>>,
      <<Result("A", 65), Result("B", 90)>>,
      <<Result("A", 65), Result("B", 65)>>,
      <<Result("B", 90), Result("A", 65)>>,
      <<Result("A", 65), Result("B", 90), Result("C", 65)>> }

Sections == {"pain-points", "summary"}

-----------------------------------------------------------------------------
(* JavaScript values held in `results`                                     *)

Arr(s) == [tag |-> "array", items |-> s]
EmptyArray == Arr(<<>>)
\* a 2xx body that is not an array and has no positive length: a plain object
\* such as {"error": "..."}, a number, a boolean or ""
ObjectPayload == [tag |-> "object", items |-> <<>>]
\* a 2xx body that is a non-empty string (an HTML or text body); items are its
\* characters
TextPayload == [tag |-> "string", items |-> <<"<", "!">>]
\* a 2xx body that is JSON null
NullPayload == [tag |-> "null", items |-> <<>>]
\* a 2xx body that is an object with a positive length property, {"length": 2};
\* items has as many entries as the property reads
SizedObjectPayload == [tag |-> "sized-object", items |-> <<"_", "_">>]

\* response.data of the 2xx responses whose body is not an array
MalformedPayloads == {ObjectPayload, TextPayload, NullPayload, SizedObjectPayload}

IsArray(v) == v.tag = "array"

\* v.length reads a number: arrays, strings and objects with that property
HasLength(v) == v.tag \in {"array", "string", "sized-object"}

\* results.length > 0, the condition under which rows and the sort button
\* render; undefined > 0 is false
HasRows(v) == HasLength(v) /\ Len(v.items) > 0

\* the render of a component holding v in results throws: null.length, or
\* results.map called on a value that is not an array
RenderThrows(v) == v.tag = "null" \/ (HasRows(v) /\ ~IsArray(v))

\* `pain-points-${index}` / `summary-${index}`, index counted from 0
Key(section, index) == <<section, index>>

KeysFor(n) == {Key(s, i) : s \in Sections, i \in 0 .. (n - 1)}

EmptyObject == [k \in {} |-> FALSE]

\* obj[id] coerced to a boolean: a missing key reads undefined, which is falsy
Truthy(obj, id) == IF id \in DOMAIN obj THEN obj[id] ELSE FALSE

\* what requiredExperience holds: the number of useState(0), or the string
\* e.target.value of the select
Num(n) == [tag |-> "number", num |-> n, chars |-> <<>>]
Str(chars) == [tag |-> "string", num |-> 0, chars |-> chars]

-----------------------------------------------------------------------------
(* Pure helpers                                                            *)

RECURSIVE TrimStart(_)
TrimStart(s) ==
    IF s = <<>> THEN s
    ELSE IF Head(s) \in Whitespace THEN TrimStart(Tail(s)) ELSE s

RECURSIVE TrimEnd(_)
TrimEnd(s) ==
    IF s = <<>> THEN s
    ELSE IF s[Len(s)] \in Whitespace THEN TrimEnd(SubSeq(s, 1, Len(s) - 1)) ELSE s

\* String.prototype.trim
trim(s) == TrimEnd(TrimStart(s))

\* resumes.some((existingFile) => existingFile.name === newFile.name)
someSameName(existing, newFile) ==
    \E i \in 1 .. Len(existing) : existing[i].name = newFile.name

\* the duplicate filter of handleFileChange and handleDrop
uniqueNewFiles(newFiles, existing) ==
    LET Keep(f) == ~someSameName(existing, f) IN SelectSeq(newFiles, Keep)

\* the MIME type filter of handleDrop
validFilesMutant(droppedFiles) == droppedFiles

validFiles(droppedFiles) ==
    LET Keep(f) == f.type = PDF \/ f.type = DOCX IN SelectSeq(droppedFiles, Keep)

NoResumes == "Please upload at least one resume file."
NoJobDescription == "Please provide a job description."
AnalysisFailed == "An error occurred during analysis. Please try again."
Null == "null"

\* the validation block of handleAnalyze: the message it sets, Null if it passes
validateMutant(files, description) ==
    IF trim(description) = <<>> THEN NoJobDescription
    ELSE IF Len(files) = 0 THEN NoResumes
    ELSE Null

validate(files, description) ==
    IF Len(files) = 0 \/ trim(description) = <<>>
    THEN IF Len(files) = 0 THEN NoResumes ELSE NoJobDescription
    ELSE Null

\* place x behind every element whose score is >= x.score
RECURSIVE InsertByScoreMutant(_, _)
InsertByScoreMutant(sorted, x) ==
    IF sorted = <<>> THEN <<x>>
    ELSE IF x.score - Head(sorted).score >= 0
         THEN <<x>> \o sorted
         ELSE <<Head(sorted)>> \o InsertByScoreMutant(Tail(sorted), x)

RECURSIVE InsertByScoreAscending(_, _)
InsertByScoreAscending(sorted, x) ==
    IF sorted = <<>> THEN <<x>>
    ELSE IF Head(sorted).score - x.score > 0
         THEN <<x>> \o sorted
         ELSE <<Head(sorted)>> \o InsertByScoreAscending(Tail(sorted), x)

RECURSIVE InsertByScore(_, _)
InsertByScore(sorted, x) ==
    IF sorted = <<>> THEN <<x>>
    ELSE IF x.score - Head(sorted).score > 0
         THEN <<x>> \o sorted
         ELSE <<Head(sorted)>> \o InsertByScore(Tail(sorted), x)

\* [...prevResults].sort((a, b) => b.score - a.score): Array.prototype.sort is stable
RECURSIVE sortedResults(_)
sortedResults(s) ==
    IF s = <<>> THEN <<>>
    ELSE InsertByScore(sortedResults(SubSeq(s, 1, Len(s) - 1)), s[Len(s)])

\* initialVisibility built by the forEach after a successful response
initialVisibilityMutant(n) == [k \in KeysFor(n) |-> TRUE]

initialVisibility(n) == [k \in KeysFor(n) |-> FALSE]

\* newVisibleContent built inside sortByScore
newVisibleContent(n, visible) == [k \in KeysFor(n) |-> Truthy(visible, k)]

NoPrior == [results |-> EmptyArray, visibleContent |-> EmptyObject]
None == [tag |-> "none", items |-> <<>>]

-----------------------------------------------------------------------------
(* Initial state: the useState defaults                                    *)

Init ==
    /\ resumes = <<>>
    /\ jobDescription = <<>>
    /\ results = EmptyArray
    /\ analyzing = FALSE
    /\ error = Null
    /\ visibleContent = EmptyObject
    /\ analyzeClicked = FALSE
    /\ isDragOver = FALSE
    /\ requests = <<>>
    /\ hPrior = NoPrior
    /\ hLastSuccess = None
    /\ requiredExperience = Num(0)

\* the component is on screen; a render that throws meets no error boundary,
\* the tree is unmounted and no handler of this App runs any more
Mounted == ~RenderThrows(results)

-----------------------------------------------------------------------------
(* File collection                                                         *)

\* onChange of the file input; `accept` is only a hint to the file dialog
handleFileChange(newFiles) ==
    /\ Mounted
    /\ Len(resumes) + Len(uniqueNewFiles(newFiles, resumes)) <= MaxResumes
    /\ resumes' = resumes \o uniqueNewFiles(newFiles, resumes)
    /\ UNCHANGED <<jobDescription, results, analyzing, error, visibleContent,
                   analyzeClicked, isDragOver, requests, hPrior, hLastSuccess,
                   requiredExperience>>

handleDragOver ==
    /\ Mounted
    /\ isDragOver' = TRUE
    /\ UNCHANGED <<resumes, jobDescription, results, analyzing, error,
                   visibleContent, analyzeClicked, requests, hPrior, hLastSuccess,
                   requiredExperience>>

handleDragLeave ==
    /\ Mounted
    /\ isDragOver' = FALSE
    /\ UNCHANGED <<resumes, jobDescription, results, analyzing, error,
                   visibleContent, analyzeClicked, requests, hPrior, hLastSuccess,
                   requiredExperience>>

\* what handleDrop of the required-experience variant passes to setResumes:
\* (prev) => [...prev, ...validFiles], with no filter on names
dropUpdaterExperience(prev, droppedFiles) == prev \o validFiles(droppedFiles)

handleDrop(droppedFiles) ==
    /\ Mounted
    /\ Len(resumes) + Len(uniqueNewFiles(validFiles(droppedFiles), resumes)) <= MaxResumes
    /\ isDragOver' = FALSE
    /\ resumes' = resumes \o uniqueNewFiles(validFiles(droppedFiles), resumes)
    /\ UNCHANGED <<jobDescription, results, analyzing, error, visibleContent,
                   analyzeClicked, requests, hPrior, hLastSuccess,
                   requiredExperience>>

\* the updater removeFile passes to setResumes:
\* (prev) => prev.filter((file) => file.name !== fileName)
removeUpdaterReversed(prev, fileName) ==
    LET Keep(f) == f.name # fileName
        kept == SelectSeq(prev, Keep)
    IN  [i \in 1 .. Len(kept) |-> kept[Len(kept) + 1 - i]]

removeUpdater(prev, fileName) ==
    LET Keep(f) == f.name # fileName IN SelectSeq(prev, Keep)

removeFile(fileName) ==
    /\ Mounted
    /\ resumes' = removeUpdater(resumes, fileName)
    /\ UNCHANGED <<jobDescription, results, analyzing, error, visibleContent,
                   analyzeClicked, isDragOver, requests, hPrior, hLastSuccess,
                   requiredExperience>>

\* onChange of the job description textarea
setJobDescription(value) ==
    /\ Mounted
    /\ jobDescription' = value
    /\ UNCHANGED <<resumes, results, analyzing, error, visibleContent,
                   analyzeClicked, isDragOver, requests, hPrior, hLastSuccess,
                   requiredExperience>>

-----------------------------------------------------------------------------
(* handleAnalyze up to the await                                           *)

\* the analyze button is rendered with disabled={analyzing}
AnalyzeEnabledMutant == TRUE

AnalyzeEnabled == ~analyzing

\* setResults([]) on an accepted submission
ResultsOnSubmitMutant == results

ResultsOnSubmit == EmptyArray

\* setVisibleContent({}) on an accepted submission
VisibleOnSubmitMutant == visibleContent

VisibleOnSubmit == EmptyObject

\* the body of the FormData that axios.post sends
formDataMutant(files, description) ==
    [resumes |-> files, job_description |-> trim(description)]

formData(files, description) == [resumes |-> files, job_description |-> description]

\* validation failed: setError(message); return
handleAnalyzeRejectedMutant(message) ==
    /\ error' = message
    /\ results' = EmptyArray
    /\ visibleContent' = EmptyObject
    /\ UNCHANGED <<resumes, jobDescription, analyzing, isDragOver, requests,
                   hPrior, hLastSuccess,
                   requiredExperience>>

handleAnalyzeRejected(message) ==
    /\ error' = message
    /\ UNCHANGED <<resumes, jobDescription, results, analyzing, visibleContent,
                   isDragOver, requests, hPrior, hLastSuccess,
                   requiredExperience>>

\* validation passed: everything from setError(null) to the axios.post call
handleAnalyzeAcceptedKeepsError ==
    /\ analyzing' = TRUE
    /\ results' = ResultsOnSubmit
    /\ visibleContent' = VisibleOnSubmit
    /\ requests' = Append(requests, formData(resumes, jobDescription))
    /\ hPrior' = [results |-> results, visibleContent |-> visibleContent]
    /\ UNCHANGED <<resumes, jobDescription, error, isDragOver, hLastSuccess,
                   requiredExperience>>

handleAnalyzeAccepted ==
    /\ error' = Null
    /\ analyzing' = TRUE
    /\ results' = ResultsOnSubmit
    /\ visibleContent' = VisibleOnSubmit
    /\ requests' = Append(requests, formData(resumes, jobDescription))
    /\ hPrior' = [results |-> results, visibleContent |-> visibleContent]
    /\ UNCHANGED <<resumes, jobDescription, isDragOver, hLastSuccess,
                   requiredExperience>>

handleAnalyze ==
    /\ Mounted
    /\ AnalyzeEnabled
    /\ analyzeClicked' = TRUE
    /\ IF validate(resumes, jobDescription) # Null
       THEN handleAnalyzeRejected(validate(resumes, jobDescription))
       ELSE handleAnalyzeAccepted

-----------------------------------------------------------------------------
(* handleAnalyze after the await                                           *)

RemoveAt(s, i) == SubSeq(s, 1, i - 1) \o SubSeq(s, i + 1, Len(s))

\* setResults(response.data) for a 2xx response
ResultsOnResponse(data) == data

\* 2xx response whose data is an array: try block runs to its end, then finally
handleAnalyzeSuccessMutant(i, data) ==
    /\ results' = ResultsOnResponse(Arr(data))
    /\ visibleContent' = initialVisibility(Len(data))
    /\ requests' = RemoveAt(requests, i)
    /\ hPrior' = NoPrior
    /\ hLastSuccess' = Arr(data)
    /\ UNCHANGED <<resumes, jobDescription, analyzing, error, analyzeClicked,
                   isDragOver,
                   requiredExperience>>

handleAnalyzeSuccess(i, data) ==
    /\ results' = ResultsOnResponse(Arr(data))
    /\ visibleContent' = initialVisibility(Len(data))
    /\ analyzing' = FALSE
    /\ requests' = RemoveAt(requests, i)
    /\ hPrior' = NoPrior
    /\ hLastSuccess' = Arr(data)
    /\ UNCHANGED <<resumes, jobDescription, error, analyzeClicked, isDragOver,
                   requiredExperience>>

\* 2xx response whose data is not an array: setResults(data) has been called
\* when data.forEach throws a TypeError; then catch, then finally.  When the
\* render of the state written here throws, the component is gone (Mounted)
handleAnalyzeMalformed(i, data) ==
    /\ results' = ResultsOnResponse(data)
    /\ error' = AnalysisFailed
    /\ analyzing' = FALSE
    /\ requests' = RemoveAt(requests, i)
    /\ hPrior' = NoPrior
    /\ UNCHANGED <<resumes, jobDescription, visibleContent, analyzeClicked,
                   isDragOver, hLastSuccess,
                   requiredExperience>>

\* axios.post rejects (network error, timeout, non-2xx status): catch, then finally
handleAnalyzeFailureMutant(i) ==
    /\ error' = AnalysisFailed
    /\ requests' = RemoveAt(requests, i)
    /\ hPrior' = NoPrior
    /\ UNCHANGED <<resumes, jobDescription, results, analyzing, visibleContent,
                   analyzeClicked, isDragOver, hLastSuccess,
                   requiredExperience>>

handleAnalyzeFailure(i) ==
    /\ error' = AnalysisFailed
    /\ analyzing' = FALSE
    /\ requests' = RemoveAt(requests, i)
    /\ hPrior' = NoPrior
    /\ UNCHANGED <<resumes, jobDescription, results, visibleContent,
                   analyzeClicked, isDragOver, hLastSuccess,
                   requiredExperience>>

-----------------------------------------------------------------------------
(* Results store                                                           *)

\* the ids of the View buttons on screen: two per row of results.map
RenderedIds ==
    IF Mounted /\ HasRows(results) THEN KeysFor(Len(results.items)) ELSE {}

\* the updater toggleContent passes to setVisibleContent:
\* (prev) => ({...prev, [id]: !prev[id] || false})
toggleUpdaterMutant(prev, id) ==
    [k \in DOMAIN prev \cup {id} |-> IF k = id THEN TRUE ELSE prev[k]]

toggleUpdaterAccordion(prev, id) ==
    [k \in DOMAIN prev \cup {id} |-> IF k = id THEN ~Truthy(prev, id) ELSE FALSE]

toggleUpdater(prev, id) ==
    [k \in DOMAIN prev \cup {id} |->
        IF k = id THEN (~Truthy(prev, id)) \/ FALSE ELSE prev[k]]

\* the same updater in the required-experience variant:
\* (prev) => ({...prev, [id]: !prev[id]})
toggleUpdaterExperience(prev, id) ==
    [k \in DOMAIN prev \cup {id} |-> IF k = id THEN ~Truthy(prev, id) ELSE prev[k]]

toggleContent(id) ==
    /\ id \in RenderedIds
    /\ visibleContent' = toggleUpdater(visibleContent, id)
    /\ UNCHANGED <<resumes, jobDescription, results, analyzing, error,
                   analyzeClicked, isDragOver, requests, hPrior, hLastSuccess,
                   requiredExperience>>

\* the sort button is rendered only when results.length > 0
sortByScore ==
    /\ Mounted
    /\ HasRows(results)
    /\ results' = Arr(sortedResults(results.items))
    /\ visibleContent' = newVisibleContent(Len(results.items), visibleContent)
    /\ UNCHANGED <<resumes, jobDescription, analyzing, error, analyzeClicked,
                   isDragOver, requests, hPrior, hLastSuccess,
                   requiredExperience>>

-----------------------------------------------------------------------------

Next ==
    \/ \E newFiles \in Batches : handleFileChange(newFiles)
    \/ handleDragOver
    \/ handleDragLeave
    \/ \E droppedFiles \in Batches : handleDrop(droppedFiles)
    \/ \E fileName \in Names : removeFile(fileName)
    \/ \E value \in Descriptions : setJobDescription(value)
    \/ handleAnalyze
    \/ \E i \in 1 .. Len(requests) : \E data \in Responses : handleAnalyzeSuccess(i, data)
    \/ \E i \in 1 .. Len(requests) : handleAnalyzeFailure(i)
    \/ \E i \in 1 .. Len(requests) : \E data \in MalformedPayloads :
           handleAnalyzeMalformed(i, data)
    \/ \E id \in RenderedIds : toggleContent(id)
    \/ sortByScore

Spec == Init /\ [][Next]_vars

-----------------------------------------------------------------------------
(* The required-experience variant (src/unnamed/part_000)                  *)

\* Array.from({ length: 21 }, ...): the select offers the options 0 .. 20
OptionCount == 21

\* the options picked in the explored runs: both ends, a single digit and a round ten
ExperienceChoices == {i \in 0 .. (OptionCount - 1) : i \in {0, 7, 10, OptionCount - 1}}

\* response.data arrays the service is taken to return in the explored runs
ExperienceResponses == {data \in Responses : Len(data) <= 1}

\* e.target.files / e.dataTransfer.files in the explored runs
ExperienceBatches == {b \in Batches : \E i \in 1 .. Len(b) : b[i].name = "a"}

Digits == <<"0", "1", "2", "3", "4", "5", "6", "7", "8", "9">>

\* String(n) for an integer n >= 0: its decimal digits
RECURSIVE NumberToString(_)
NumberToString(n) ==
    IF n < 10 THEN <<Digits[n + 1]>>
    ELSE NumberToString(n \div 10) \o <<Digits[(n % 10) + 1]>>

\* String(v) for a value of requiredExperience, as FormData.append and the
\* value attribute of the select coerce it
String(v) == IF v.tag = "number" THEN NumberToString(v.num) ELSE v.chars

\* <option key={i} value={i}>: the value attribute, which e.target.value reads
optionValueMutant(i) == NumberToString(i + 1)

optionValue(i) == NumberToString(i)

\* onChange of the select: (e) => setRequiredExperience(e.target.value); a
\* change event fires only when another option than the shown one is picked
setRequiredExperience(i) ==
    /\ Mounted
    /\ optionValue(i) # String(requiredExperience)
    /\ requiredExperience' = Str(optionValue(i))
    /\ UNCHANGED <<resumes, jobDescription, results, analyzing, error,
                   visibleContent, analyzeClicked, isDragOver, requests, hPrior,
                   hLastSuccess>>

\* setResumes(Array.from(e.target.files)): the picked files replace the list
handleFileChangeExperience(newFiles) ==
    /\ Mounted
    /\ Len(newFiles) <= MaxResumes
    /\ resumes' = newFiles
    /\ UNCHANGED <<jobDescription, results, analyzing, error, visibleContent,
                   analyzeClicked, isDragOver, requests, hPrior, hLastSuccess,
                   requiredExperience>>

handleDragOverExperience == handleDragOver

handleDragLeaveExperience == handleDragLeave

handleDropExperience(droppedFiles) ==
    /\ Mounted
    /\ Len(dropUpdaterExperience(resumes, droppedFiles)) <= MaxResumes
    /\ isDragOver' = FALSE
    /\ resumes' = dropUpdaterExperience(resumes, droppedFiles)
    /\ UNCHANGED <<jobDescription, results, analyzing, error, visibleContent,
                   analyzeClicked, requests, hPrior, hLastSuccess,
                   requiredExperience>>

setJobDescriptionExperience(value) == setJobDescription(value)

\* the body of the FormData: the files, the description and
\* formData.append('required_experience', requiredExperience)
formDataExperience(files, description, experience) ==
    [resumes |-> files, job_description |-> description,
     required_experience |-> String(experience)]

\* validation passed: setError(null), setAnalyzing(true) and the axios.post
\* call; there is no setResults([]) and no setVisibleContent({}) here
handleAnalyzeAcceptedExperience ==
    /\ error' = Null
    /\ analyzing' = TRUE
    /\ requests' = Append(requests,
                          formDataExperience(resumes, jobDescription, requiredExperience))
    /\ UNCHANGED <<resumes, jobDescription, results, visibleContent, isDragOver,
                   hPrior, hLastSuccess, requiredExperience>>

\* the validation block is that of App.jsx, message for message
handleAnalyzeExperience ==
    /\ Mounted
    /\ ~analyzing
    /\ analyzeClicked' = TRUE
    /\ IF validate(resumes, jobDescription) # Null
       THEN handleAnalyzeRejected(validate(resumes, jobDescription))
       ELSE handleAnalyzeAcceptedExperience

\* the code after the await is that of App.jsx, statement for statement
handleAnalyzeSuccessExperience(i, data) == handleAnalyzeSuccess(i, data)

handleAnalyzeFailureExperience(i) == handleAnalyzeFailure(i)

handleAnalyzeMalformedExperience(i, data) == handleAnalyzeMalformed(i, data)

toggleContentExperience(id) ==
    /\ id \in RenderedIds
    /\ visibleContent' = toggleUpdaterExperience(visibleContent, id)
    /\ UNCHANGED <<resumes, jobDescription, results, analyzing, error,
                   analyzeClicked, isDragOver, requests, hPrior, hLastSuccess,
                   requiredExperience>>

NextExperience ==
    \/ \E newFiles \in ExperienceBatches : handleFileChangeExperience(newFiles)
    \/ handleDragOverExperience
    \/ handleDragLeaveExperience
    \/ \E droppedFiles \in ExperienceBatches : handleDropExperience(droppedFiles)
    \/ \E value \in Descriptions : setJobDescriptionExperience(value)
    \/ \E i \in ExperienceChoices : setRequiredExperience(i)
    \/ handleAnalyzeExperience
    \/ \E i \in 1 .. Len(requests) : \E data \in ExperienceResponses :
           handleAnalyzeSuccessExperience(i, data)
    \/ \E i \in 1 .. Len(requests) : handleAnalyzeFailureExperience(i)
    \/ \E i \in 1 .. Len(requests) : \E data \in MalformedPayloads :
           handleAnalyzeMalformedExperience(i, data)
    \/ \E id \in RenderedIds : toggleContentExperience(id)

SpecExperience == Init /\ [][NextExperience]_vars

-----------------------------------------------------------------------------
(* removeFile on longer collections                                        *)

\* the files of the collections removeFile is explored on: three names, two
\* of them carried by files of two types
RemoveFiles ==
    {File("a", PDF), File("a", DOCX), File("b", DOCX), File("b", TXT), File("c", PDF)}

\* the names of the Remove buttons of those collections
RemoveNames == {f.name : f \in RemoveFiles}

\* every collection of MaxRemoveLen of those files, in every order; each is
\* what handleFileChange leaves when that batch is picked into an empty
\* collection
RemoveCollections == [1 .. MaxRemoveLen -> RemoveFiles]

InitRemove ==
    /\ resumes \in RemoveCollections
    /\ jobDescription = <<>>
    /\ results = EmptyArray
    /\ analyzing = FALSE
    /\ error = Null
    /\ visibleContent = EmptyObject
    /\ analyzeClicked = FALSE
    /\ isDragOver = FALSE
    /\ requests = <<>>
    /\ hPrior = NoPrior
    /\ hLastSuccess = None
    /\ requiredExperience = Num(0)

NextRemove == \E fileName \in RemoveNames : removeFile(fileName)

SpecRemove == InitRemove /\ [][NextRemove]_vars

-----------------------------------------------------------------------------
(* Vocabulary of the properties                                            *)

\* empty or made of whitespace only, said without trim
WhitespaceOnly(s) == \A i \in 1 .. Len(s) : s[i] \in Whitespace

\* some visibility flag of the object is true
SomeFlagSet(obj) == \E k \in DOMAIN obj : obj[k]

\* the elements of a sequence with their multiplicities
BagOfSeq(s) == [x \in {s[i] : i \in 1 .. Len(s)} |-> Cardinality({i \in 1 .. Len(s) : s[i] = x})]

\* a step in which an outstanding request ends with the AnalysisFailed message
FailedCompletion == Len(requests') < Len(requests) /\ error' = AnalysisFailed

-----------------------------------------------------------------------------
(* Properties                                                              *)

\* C1: the resume collection never contains two entries with the same name.
C1_UniqueNames ==
    \A i, j \in 1 .. Len(resumes) : i # j => resumes[i].name # resumes[j].name

\* C2: while a request is in flight a repeat submit is not possible, so at
\* most one analysis request is outstanding in every reachable state.
C2_AtMostOneRequest ==
    /\ Len(requests) <= 1
    /\ requests # <<>> => ~ENABLED handleAnalyze

\* C2 witness: a request is in flight while the inputs would pass validation.
C2_Witness ==
    /\ Len(requests) = 1
    /\ analyzing
    /\ validate(resumes, jobDescription) = Null

\* C3: sortByScore keeps every visibility flag with the candidate it was set
\* for: the flag of a candidate at its new position equals the flag it had at
\* its old position.
C3_FlagsFollowCandidate ==
    [][sortByScore =>
        \A i \in 1 .. Len(results.items) : \A j \in 1 .. Len(results'.items) :
            results'.items[j].candidate_name = results.items[i].candidate_name =>
                \A s \in Sections :
                    Truthy(visibleContent', Key(s, j - 1)) = Truthy(visibleContent, Key(s, i - 1))]_vars

\* C4: whenever a request is outstanding the results are the empty sequence
\* and there are no visibility records.
C4_NoStaleResults ==
    requests # <<>> => results = EmptyArray /\ visibleContent = EmptyObject

\* C4 witness: a request is outstanding and the submission that issued it
\* found results with an opened section.
C4_Witness ==
    /\ requests # <<>>
    /\ HasRows(hPrior.results)
    /\ SomeFlagSet(hPrior.visibleContent)

\* C5: a submit with no files reports NoResumes whatever the description is;
\* a submit with files and an empty or whitespace-only description reports
\* NoJobDescription.
C5_ValidationOrder ==
    [][handleAnalyze =>
        /\ resumes = <<>> => error' = NoResumes
        /\ resumes # <<>> /\ WhitespaceOnly(jobDescription) => error' = NoJobDescription]_vars

\* C5 witness: NoJobDescription is shown for a non-empty collection and a
\* description of whitespace characters.
C5_Witness ==
    /\ error = NoJobDescription
    /\ resumes # <<>>
    /\ jobDescription # <<>>
    /\ WhitespaceOnly(jobDescription)

\* C6: a submit that fails validation sends no request, leaves analyzing
\* false and leaves files, description, results and visibility as they were.
C6_RejectedSubmitFrame ==
    [][handleAnalyze /\ (resumes = <<>> \/ WhitespaceOnly(jobDescription)) =>
        /\ analyzing' = FALSE
        /\ UNCHANGED <<requests, resumes, jobDescription, results, visibleContent>>]_vars

\* C6 witness: a validation message is shown next to results that are still
\* held, one of their sections open.
C6_Witness ==
    /\ error \in {NoResumes, NoJobDescription}
    /\ HasRows(results)
    /\ SomeFlagSet(visibleContent)
    /\ ~analyzing

\* C7 as stated: when results of an earlier analysis were held at a submission
\* that then fails, the results and the visibility records after the failure
\* are what they were before that submission.
C7_PriorResultsKept ==
    [][FailedCompletion /\ HasRows(hPrior.results) =>
        results' = hPrior.results /\ visibleContent' = hPrior.visibleContent]_vars

\* C7 amended: a failed submission does not bring the prior results back; the
\* visibility records are empty after it, and the results are the empty
\* sequence when the request was rejected and the payload itself when a 2xx
\* payload was not an array.
C7_PriorResultsCleared ==
    [][/\ (\E i \in 1 .. Len(requests) : handleAnalyzeFailure(i)) =>
            results' = EmptyArray /\ visibleContent' = EmptyObject
       /\ \A data \in MalformedPayloads :
            (\E i \in 1 .. Len(requests) : handleAnalyzeMalformed(i, data)) =>
                results' = data /\ visibleContent' = EmptyObject]_vars

\* C7 witness: a submission made after a successful analysis with rows has
\* failed, and nothing of those rows is held.
C7_Witness ==
    /\ error = AnalysisFailed
    /\ ~analyzing
    /\ hLastSuccess # None
    /\ HasRows(hLastSuccess)
    /\ results = EmptyArray
    /\ visibleContent = EmptyObject

\* C8: a submission that ends in failure leaves in the results nothing of its
\* response: the results stay the array they were.
C8_NoPartialSuccess ==
    [][FailedCompletion => IsArray(results') /\ results' = results]_vars

\* C9: the results are non-empty only after a successful completion, and then
\* they have exactly the elements of the most recent successful response.
C9_ResultsFromLastSuccess ==
    results # EmptyArray =>
        /\ hLastSuccess # None
        /\ IsArray(results)
        /\ BagOfSeq(results.items) = BagOfSeq(hLastSuccess.items)

\* C10: a successful response with array data makes the results that array in
\* the order received, every flag of every position false, the error null
\* and analyzing false.
C10_SuccessPopulates ==
    [][\A i \in 1 .. Len(requests) : \A data \in Responses :
        handleAnalyzeSuccess(i, data) =>
            /\ results' = Arr(data)
            /\ \A k \in KeysFor(Len(data)) : k \in DOMAIN visibleContent' /\ ~visibleContent'[k]
            /\ ~SomeFlagSet(visibleContent')
            /\ error' = Null
            /\ analyzing' = FALSE]_vars

\* C10 witness: a response with one entry has been accepted while two files
\* are in the collection.
C10_Witness ==
    /\ ~analyzing
    /\ error = Null
    /\ hLastSuccess # None
    /\ results = hLastSuccess
    /\ Len(results.items) = 1
    /\ Len(resumes) = 2
    /\ visibleContent = initialVisibility(1)

\* C11: sortByScore yields a permutation of the results it found, with scores
\* non-increasing, in which candidates of equal score keep their order.
C11_SortStableDescending ==
    [][sortByScore =>
        LET before == results.items
            after == results'.items
        IN  /\ BagOfSeq(after) = BagOfSeq(before)
            /\ \A p, q \in 1 .. Len(after) : p < q => after[p].score >= after[q].score
            /\ \A i, j \in 1 .. Len(before) :
                   i < j /\ before[i].score = before[j].score =>
                       \E p, q \in 1 .. Len(after) :
                           p < q /\ after[p] = before[i] /\ after[q] = before[j]]_vars

\* C11 witness: the response [A(65), B(90), C(65)] has been sorted; B moved to
\* the front and the tied A and C kept their order.
C11_Witness ==
    results = Arr(<<Result("B", 90), Result("A", 65), Result("C", 65)>>)

\* C12: sorting a second time changes nothing: the sequence sortByScore
\* produces is a fixed point of the sort, and a sortByScore that finds the
\* scores already non-increasing leaves the sequence as it is.
C12_SortIdempotent ==
    [][sortByScore =>
        /\ sortedResults(results'.items) = results'.items
        /\ (\A p, q \in 1 .. Len(results.items) :
                p < q => results.items[p].score >= results.items[q].score)
           => results' = results]_vars

\* C12 witness: the response [A(65), B(90)] has been sorted into [B(90), A(65)]
\* and is on screen, where sortByScore can be pressed again.
C12_Witness ==
    /\ results = Arr(<<Result("B", 90), Result("A", 65)>>)
    /\ hLastSuccess = Arr(<<Result("A", 65), Result("B", 90)>>)
    /\ ENABLED sortByScore

\* the ids a toggle can be asked for in a state: those of the rows on screen
\* and those of one further row, which visibleContent has no entry for
ToggleIds == KeysFor((IF IsArray(results) THEN Len(results.items) ELSE 0) + 1)

\* toggling id twice, by the updater Toggle, gives back the flag the object
\* had, the first toggle giving its negation; an absent entry reads false
TwiceRestores(Toggle(_, _), obj, id) ==
    LET once == Toggle(obj, id)
        twice == Toggle(once, id)
    IN  /\ id \in DOMAIN once /\ id \in DOMAIN twice
        /\ once[id] = ~Truthy(obj, id)
        /\ twice[id] = Truthy(obj, id)
        /\ id \notin DOMAIN obj => once[id] = TRUE /\ twice[id] = FALSE

\* C13: toggling the same flag twice in a row returns it to its original
\* value, an absent entry counting as false, in both variants of toggleContent.
C13_ToggleTwice ==
    \A id \in ToggleIds :
        /\ TwiceRestores(toggleUpdater, visibleContent, id)
        /\ TwiceRestores(toggleUpdaterExperience, visibleContent, id)

\* C13 witness: one row is on screen, its pain points opened by a toggle and
\* its summary still closed; the flags of a second row are absent.
C13_Witness ==
    /\ IsArray(results) /\ Len(results.items) = 1
    /\ visibleContent = [k \in KeysFor(1) |-> k = Key("pain-points", 0)]
    /\ \E id \in ToggleIds : id \notin DOMAIN visibleContent

\* the entries `after` holds behind the first Len(before)
Appended(before, after) == SubSeq(after, Len(before) + 1, Len(after))

OnlyPdfDocx(files) == \A i \in 1 .. Len(files) : files[i].type \in {PDF, DOCX}

\* C14: whatever batch is dropped, every entry handleDrop appends has the pdf
\* or the docx MIME type, in both variants of handleDrop.  (A step that leaves
\* the collection as it was appends nothing; the updater of the variant is
\* applied to every collection a step produces.)
C14_DropAddsOnlyPdfDocx ==
    [][resumes' # resumes =>
        /\ (\E droppedFiles \in Batches : handleDrop(droppedFiles)) =>
                /\ Len(resumes') >= Len(resumes)
                /\ SubSeq(resumes', 1, Len(resumes)) = resumes
                /\ OnlyPdfDocx(Appended(resumes, resumes'))
        /\ \A droppedFiles \in Batches :
                LET after == dropUpdaterExperience(resumes', droppedFiles)
                IN  /\ SubSeq(after, 1, Len(resumes')) = resumes'
                    /\ OnlyPdfDocx(Appended(resumes', after))]_vars

\* C14 witness: a drag is over the drop zone of an empty collection, and
\* dropping the batch [a (pdf), b (text/plain)] adds a alone.
C14_Witness ==
    /\ isDragOver
    /\ resumes = <<>>
    /\ ENABLED (/\ handleDrop(<<File("a", PDF), File("b", TXT)>>)
                /\ resumes' = <<File("a", PDF)>>)

\* C15: every entry of the resume collection has the pdf or the docx MIME
\* type, whichever way it was added.
C15_CollectionOnlyPdfDocx == OnlyPdfDocx(resumes)

\* the candidates of a batch an add is to append: those of an accepted type
\* whose name the collection does not hold yet, in arrival order
AcceptedNew(batch, collection) ==
    LET Keep(f) ==
            /\ f.type \in {PDF, DOCX}
            /\ \A i \in 1 .. Len(collection) : collection[i].name # f.name
    IN  SelectSeq(batch, Keep)

\* C16: an add (file picker or drop) only appends: the collection after it is
\* the collection before it followed by the accepted candidates whose names
\* were not present, in arrival order.
C16_AddAppendsAcceptedNew ==
    [][\A batch \in Batches :
        handleFileChange(batch) \/ handleDrop(batch) =>
            resumes' = resumes \o AcceptedNew(batch, resumes)]_vars

\* C17: removeFile(name) leaves no entry of that name and keeps every other
\* entry, in the same relative order; when no entry has the name the
\* collection is unchanged.  Checked on the removals from collections of
\* MaxRemoveLen entries and from what those removals leave.
C17_RemoveOnlyThatName ==
    [][\A fileName \in RemoveNames \cup Names :
        removeFile(fileName) =>
            LET kept == {i \in 1 .. Len(resumes) : resumes[i].name # fileName}
            IN  /\ Len(resumes') = Cardinality(kept)
                /\ \A i \in 1 .. Len(resumes') : resumes'[i].name # fileName
                /\ \A i \in kept :
                       resumes'[Cardinality({k \in kept : k <= i})] = resumes[i]
                /\ \A i, j \in kept :
                       i < j => \E p, q \in 1 .. Len(resumes') :
                                   p < q /\ resumes'[p] = resumes[i]
                                         /\ resumes'[q] = resumes[j]
                /\ kept = 1 .. Len(resumes) => resumes' = resumes]_vars

\* C17 witness: a removal has left the two entries [c, b] of different
\* names, c before b as in the collection they were left from, and removing
\* the absent name a leaves them as they are.
C17_Witness ==
    /\ resumes = <<File("c", PDF), File("b", DOCX)>>
    /\ Len(resumes) < MaxRemoveLen
    /\ ENABLED (removeFile("a") /\ resumes' = resumes)

\* a step in which an outstanding request ends, whatever the outcome
Completion ==
    \E i \in 1 .. Len(requests) :
        \/ \E data \in Responses : handleAnalyzeSuccess(i, data)
        \/ handleAnalyzeFailure(i)
        \/ \E data \in MalformedPayloads : handleAnalyzeMalformed(i, data)

\* C18: no part of a submit (the validation, the acceptance, the completion
\* by success or by any kind of failure) changes the file collection or the
\* job description, so that after a failed attempt whose inputs are still
\* valid the submit can be made again.
C18_SubmitKeepsInputs ==
    /\ [][handleAnalyze \/ Completion => UNCHANGED <<resumes, jobDescription>>]_vars
    /\ [](error = AnalysisFailed /\ validate(resumes, jobDescription) = Null
            => ENABLED handleAnalyze)

\* C19: the step in which a request ends, by success or by any failure, sets
\* analyzing to false, and analyzing is never true after a step that leaves no
\* request outstanding.
C19_CompletionReturnsToIdle ==
    [][/\ Len(requests') < Len(requests) => analyzing' = FALSE
       /\ requests' = <<>> => analyzing' = FALSE]_vars

\* C19 witness: the lifecycle is back to idle after a 2xx response whose
\* payload was not an array.
C19_Witness ==
    /\ ~analyzing
    /\ requests = <<>>
    /\ error = AnalysisFailed
    /\ results = ObjectPayload

\* C20: an accepted submit adds exactly one request, holding the collection
\* and the description of that moment; later changes of the collection or of
\* the description leave the outstanding requests as they are, and requests
\* are added by nothing but an accepted submit.
C20_OneRequestWithSnapshot ==
    [][/\ handleAnalyze /\ analyzing' =>
            requests' = Append(requests, [resumes |-> resumes,
                                          job_description |-> jobDescription])
       /\ resumes' # resumes \/ jobDescription' # jobDescription =>
            requests' = requests
       /\ Len(requests') > Len(requests) =>
            /\ handleAnalyze
            /\ Len(requests') = Len(requests) + 1]_vars

\* C20 witness: while the request is outstanding both the collection and the
\* description differ from what the request carries.
C20_Witness ==
    /\ Len(requests) = 1
    /\ requests[1].resumes # resumes
    /\ requests[1].job_description # jobDescription
    /\ requests[1].resumes # <<>>

\* C23: analyzing is true exactly when an analysis request is outstanding: it
\* is never false while a response is pending and never true when none is.
C23_AnalyzingIffOutstanding == analyzing <=> requests # <<>>

\* C23 witness: a second submission is in flight after an earlier one has
\* completed with success.
C23_Witness ==
    /\ analyzing
    /\ Len(requests) = 1
    /\ hLastSuccess # None

\* the number of positions the results sequence has; a value that is not an
\* array has none
ResultCount == IF IsArray(results) THEN Len(results.items) ELSE 0

\* C24: every visibility flag that is true is keyed by a position that exists
\* in the current results: its index is below the number of results.
C24_TrueFlagsHaveRows ==
    \A k \in DOMAIN visibleContent : visibleContent[k] => k[2] < ResultCount

\* C24 witness: after a submission three rows are on screen and the summary
\* of the last one is open.
C24_Witness ==
    /\ analyzeClicked
    /\ ResultCount = 3
    /\ Truthy(visibleContent, Key("summary", 2))

\* C25: a toggle of one candidate/section pair negates that flag and leaves
\* every other flag, the results and their order, the files, the description,
\* the error and the lifecycle as they were.
C25_ToggleFrame ==
    [][visibleContent' # visibleContent =>
        \A id \in RenderedIds :
            toggleContent(id) =>
                /\ Truthy(visibleContent', id) = ~Truthy(visibleContent, id)
                /\ \A k \in (DOMAIN visibleContent \cup DOMAIN visibleContent') \ {id} :
                       /\ k \in DOMAIN visibleContent /\ k \in DOMAIN visibleContent'
                       /\ visibleContent'[k] = visibleContent[k]
                /\ UNCHANGED <<results, resumes, jobDescription, error, analyzing,
                               requests>>]_vars

\* C25 witness: of the four flags of two rows, the pain points of the first
\* and the summary of the second are open and the other two are closed.
C25_Witness ==
    /\ ResultCount = 2
    /\ visibleContent = [k \in KeysFor(2) |->
                            k \in {Key("pain-points", 0), Key("summary", 1)}]

\* C26: the error is null whenever a request is in flight and is still null
\* right after a successful completion; the AnalysisFailed message of an
\* attempt is never on screen together with rows of results.
C26_NoErrorBesideResults ==
    /\ [](requests # <<>> => error = Null)
    /\ [](error = AnalysisFailed => ResultCount = 0)
    /\ [][Len(requests') < Len(requests) =>
            ((\E i \in 1 .. Len(requests) : \E data \in Responses :
                  handleAnalyzeSuccess(i, data)) => error' = Null)]_vars

\* C26 witness: the message of a failed attempt is on screen and the inputs
\* are valid, so that the next submit is accepted and clears it.
C26_Witness ==
    /\ error = AnalysisFailed
    /\ ~analyzing
    /\ ENABLED (handleAnalyze /\ analyzing' /\ error' = Null)

\* C21: in the required-experience variant, whenever a request is in flight
\* the results are the empty sequence and there are no visibility records:
\* the accepted submission has cleared what an earlier analysis left.
C21_ExperienceNoStaleResults ==
    requests # <<>> => results = EmptyArray /\ visibleContent = EmptyObject

\* the characters are decimal digits, at least one
IsDigits(chars) ==
    /\ Len(chars) > 0
    /\ \A i \in 1 .. Len(chars) : \E d \in 1 .. Len(Digits) : Digits[d] = chars[i]

\* the integer a string of decimal digits denotes
RECURSIVE DigitsValue(_)
DigitsValue(chars) ==
    IF chars = <<>> THEN 0
    ELSE DigitsValue(SubSeq(chars, 1, Len(chars) - 1)) * 10
         + (CHOOSE d \in 0 .. 9 : Digits[d + 1] = chars[Len(chars)])

\* the value denotes an integer of [0,20]: it is such a number, or a string
\* of digits that reads as one
DenotesYears(v) ==
    IF v.tag = "number" THEN v.num \in 0 .. 20
    ELSE IsDigits(v.chars) /\ DigitsValue(v.chars) \in 0 .. 20

YearsOf(v) == IF v.tag = "number" THEN v.num ELSE DigitsValue(v.chars)

\* C22: the required-experience value is the number 0 initially and denotes
\* an integer of [0,20] in every reachable state, whichever option of the
\* select was picked; an accepted submit adds one request whose
\* required_experience reads as the value held at that moment.
C22_ExperienceInRangeAndSent ==
    /\ requiredExperience = Num(0)
    /\ [](/\ DenotesYears(requiredExperience)
          /\ \A i \in 0 .. (OptionCount - 1) : DenotesYears(Str(optionValue(i))))
    /\ [][handleAnalyzeExperience /\ analyzing' =>
            /\ Len(requests') = Len(requests) + 1
            /\ IsDigits(requests'[Len(requests')].required_experience)
            /\ DigitsValue(requests'[Len(requests')].required_experience)
                  = YearsOf(requiredExperience)]_vars

\* C22 witness: the request in flight was sent with 20 years and the select
\* has been moved to 7 since.
C22_Witness ==
    /\ Len(requests) = 1
    /\ requests[1].required_experience = <<"2", "0">>
    /\ requiredExperience = Str(<<"7">>)

====
